---- MODULE Spec2Model ----
(***************************************************************************)
(* codecount: counting blank, comment and code lines of source files.      *)
(* A model of src/codecount.go: the language table, the extension index,   *)
(* the directory walk (walkFunc), the per-line scanner (File.scan) and the *)
(* totals computed by main.  Go strings are modelled as sequences of       *)
(* one-character strings so that prefix tests, index searches, trimming    *)
(* and case folding are computed and not assumed.                          *)
(***************************************************************************)
EXTENDS Integers, Sequences, FiniteSets, TLC

VARIABLES
    entry,      \* which program runs: "main" (func main), "test" (check_scan)
                \* or "table" (check_scan on short files under a rule list)
    pc,         \* position of the running program
    widx,       \* filepath.Walk: index in Tree of the entry walkFunc sees next
    skipped,    \* filepath.Walk: directories for which walkFunc returned SkipDir
    files,      \* var files = []File{}
    file,       \* the File being scanned (receiver of scan)
    state,      \* scan: local variable state
    line_orig,  \* scan: local variable line_orig, the last line read
    failed,     \* paths on which os.Open or the scanner returned an error
    totals,     \* main: file_count, blank_count, comment_count, code_count, line_count
    out,        \* reportDetail: the flag it ran under and the rows it printed
    table,      \* the construction of var extensions: languages, position, ext_set
    disk        \* the lines of the files on disk, by path, where a specification
                \* fixes them in advance; empty where each line is drawn as it is read

vars == <<entry, pc, widx, skipped, files, file, state, line_orig, failed,
          totals, out, table, disk>>

---------------------------------------------------------------------------
(* Bounds of the model *)

\* lines read from one file by a scan started from check_scan
MaxLines == 6

\* lines read from one file by a scan started from walkFunc
MaxWalkLines == 1

\* languages in a rule list other than the declared one
MaxRules == 3

---------------------------------------------------------------------------
(* Go library functions on strings *)

Max(S) == CHOOSE x \in S : \A y \in S : y <= x

Min(S) == CHOOSE x \in S : \A y \in S : x <= y

Range(s) == {s[i] : i \in 1..Len(s)}

\* strings.HasPrefix(s, prefix); true for the empty prefix
HasPrefix(s, prefix) ==
    /\ Len(prefix) <= Len(s)
    /\ SubSeq(s, 1, Len(prefix)) = prefix

\* strings.LastIndex(s, sub): 0-based index of the last occurrence, -1 if
\* none, len(s) for the empty sub
LastIndex(s, sub) ==
    IF sub = <<>> THEN Len(s)
    ELSE LET at == {i \in 0..(Len(s) - Len(sub)) :
                        SubSeq(s, i + 1, i + Len(sub)) = sub}
         IN  IF at = {} THEN -1 ELSE Max(at)

\* unicode.IsSpace restricted to the characters of the model
IsSpace(c) == c \in {" ", "\t", "\r"}

\* strings.TrimSpace(s)
TrimSpace(s) ==
    LET keep == {i \in 1..Len(s) : ~IsSpace(s[i])}
    IN  IF keep = {} THEN <<>> ELSE SubSeq(s, Min(keep), Max(keep))

UpperLetters == <<"A","B","C","D","E","F","G","H","I","J","K","L","M","N","O","P","Q","R","S","T","U","V","W","X","Y","Z">>

LowerLetters == <<"a","b","c","d","e","f","g","h","i","j","k","l","m","n","o","p","q","r","s","t","u","v","w","x","y","z">>

\* unicode.ToLower on one character
ToLowerChar(c) ==
    IF \E i \in 1..Len(UpperLetters) : UpperLetters[i] = c
    THEN LowerLetters[CHOOSE i \in 1..Len(UpperLetters) : UpperLetters[i] = c]
    ELSE c

\* strings.ToLower(s)
ToLower(s) == [i \in 1..Len(s) |-> ToLowerChar(s[i])]

\* filepath.Ext(path): the suffix from the last dot of the last path element
Ext(path) ==
    LET seps == {i \in 1..Len(path) : path[i] = "/"}
        from == IF seps = {} THEN 1 ELSE Max(seps) + 1
        dots == {i \in from..Len(path) : path[i] = "."}
    IN  IF dots = {} THEN <<>> ELSE SubSeq(path, Max(dots), Len(path))

\* os.FileInfo.Name(): the last element of the path
Base(path) ==
    LET seps == {i \in 1..Len(path) : path[i] = "/"}
    IN  IF seps = {} THEN path ELSE SubSeq(path, Max(seps) + 1, Len(path))

---------------------------------------------------------------------------
(* The language table *)

\* type Language struct
Language(name, extension, openblock, closeblock, comment, endmark) ==
    [name |-> name, extension |-> extension, openblock |-> openblock,
     closeblock |-> closeblock, comment |-> comment, endmark |-> endmark]

\* the zero value of Language, returned by a map lookup that misses
ZeroLanguage == Language(<<>>, <<>>, <<>>, <<>>, <<>>, <<>>)

\* a list whose one rule has the open marker of a block and no close marker
languages_OneSided ==
    <<Language(<<"C","S","S">>, <<<<".","c","s","s">>>>, <<"/","*">>, <<>>, <<>>, <<>>)>>

\* var languages = Languages{...}
languages == <<
    Language(<<"A","s","s","e","m","b","l","y">>, <<<<".","s">>>>, <<>>, <<>>, <<";">>, <<>>),
    Language(<<"B","a","t","c","h">>, <<<<".","b","a","t">>>>, <<>>, <<>>, <<"R","E","M">>, <<>>),
    Language(<<"C">>, <<<<".","c">>>>, <<"/","*">>, <<"*","/">>, <<"/","/">>, <<>>),
    Language(<<"C","+","+">>, <<<<".","c","p","p">>>>, <<"/","*">>, <<"*","/">>, <<"/","/">>, <<>>),
    Language(<<"C","/","C","+","+"," ","H","e","a","d","e","r">>, <<<<".","h">>>>, <<"/","*">>, <<"*","/">>, <<"/","/">>, <<>>),
    Language(<<"C","S","S">>, <<<<".","c","s","s">>>>, <<"/","*">>, <<"*","/">>, <<>>, <<>>),
    Language(<<"C","#">>, <<<<".","c","s">>>>, <<"/","*">>, <<"*","/">>, <<"/","/">>, <<>>),
    Language(<<"G","o">>, <<<<".","g","o">>>>, <<"/","*">>, <<"*","/">>, <<"/","/">>, <<>>),
    Language(<<"H","T","M","L">>, <<<<".","h","t","m","l">>, <<".","h","t","m">>>>, <<>>, <<>>, <<>>, <<>>),
    Language(<<"J","a","v","a">>, <<<<".","j","a","v","a">>>>, <<"/","*">>, <<"*","/">>, <<"/","/">>, <<>>),
    Language(<<"J","a","v","a","s","c","r","i","p","t">>, <<<<".","j","s">>>>, <<"/","*">>, <<"*","/">>, <<"/","/">>, <<>>),
    Language(<<"J","S","O","N">>, <<<<".","j","s","o","n">>>>, <<>>, <<>>, <<>>, <<>>),
    Language(<<"M","a","r","k","d","o","w","n">>, <<<<".","m","d">>>>, <<>>, <<>>, <<>>, <<>>),
    Language(<<"P","e","r","l">>, <<<<".","p","l">>>>, <<"/","*">>, <<"*","/">>, <<"/","/">>, <<"_","_","E","N","D","_","_">>),
    Language(<<"P","H","P">>, <<<<".","p","h","p">>>>, <<"/","*">>, <<"*","/">>, <<"/","/">>, <<"_","_","h","a","l","t","_","c","o","m","p","i","l","e","r","(",")">>),
    Language(<<"P","y","t","h","o","n">>, <<<<".","p","y">>, <<".","p","y","w">>>>, <<>>, <<>>, <<"#">>, <<>>),
    Language(<<"R","e","s","t","r","u","c","t","u","r","e","d","T","e","x","t">>, <<<<".","r","s","t">>>>, <<>>, <<>>, <<>>, <<>>),
    Language(<<"R","P","G","L","E">>, <<<<".","r","p","g","l","e">>>>, <<>>, <<>>, <<>>, <<>>),
    Language(<<"R","u","b","y">>, <<<<".","r","b">>>>, <<"/","*">>, <<"*","/">>, <<"#">>, <<"_","_","E","N","D","_","_">>),
    Language(<<"R","u","s","t">>, <<<<".","r","s">>>>, <<"/","*">>, <<"*","/">>, <<"/","/">>, <<>>),
    Language(<<"S","Q","L">>, <<<<".","s","q","l">>>>, <<"/","*">>, <<"*","/">>, <<>>, <<>>),
    Language(<<"T","C","L">>, <<<<".","t","c","l">>>>, <<>>, <<>>, <<"#">>, <<>>),
    Language(<<"T","e","x","t">>, <<<<".","t","x","t">>>>, <<>>, <<>>, <<>>, <<>>),
    Language(<<"V","B">>, <<<<".","v","b">>, <<".","m","a","c">>, <<".","f","r","m">>, <<".","f","r","x">>, <<".","b","a","s">>>>, <<"/","*">>, <<"*","/">>, <<"'">>, <<>>),
    Language(<<"X","M","L">>, <<<<".","x","m","l">>, <<".","x","s","s">>, <<".","x","s","c">>, <<".","x","s","d">>, <<".","x","s","x">>>>, <<>>, <<>>, <<>>, <<>>)
>>

\* var extensions: ext_set[ext] = lang for every language in order and every
\* extension of it, so the last language naming an extension holds the key
extensions ==
    LET keys == UNION {Range(languages[i].extension) : i \in 1..Len(languages)}
    IN  [ext \in keys |->
            languages[Max({i \in 1..Len(languages) :
                              ext \in Range(languages[i].extension)})]]

\* ext_set[ext] = lang only for a key not yet in the map: first write wins
Put_KeepFirst(m, ext, lang) ==
    IF ext \in DOMAIN m THEN m
    ELSE [x \in (DOMAIN m) \cup {ext} |-> IF x = ext THEN lang ELSE m[x]]

\* ext_set[ext] = lang
Put(m, ext, lang) ==
    [x \in (DOMAIN m) \cup {ext} |-> IF x = ext THEN lang ELSE m[x]]

\* for _, ext := range lang.extension { ext_set[ext] = lang }, from the k-th
RECURSIVE PutAll(_, _, _)
PutAll(m, lang, k) ==
    IF k > Len(lang.extension) THEN m
    ELSE PutAll(Put(m, lang.extension[k], lang), lang, k + 1)

\* ext_set := map[string]Language{}, before the loop over langs
NewTable(langs) == [langs |-> langs, next |-> 1, ext_set |-> <<>>]

\* the table once the function that builds extensions has returned
BuiltTable(langs, ext_set) ==
    [langs |-> langs, next |-> Len(langs) + 1, ext_set |-> ext_set]

\* _, found := extensions[ext]
Found(ext) == ext \in DOMAIN table.ext_set

\* extensions[ext]: the zero Language for a key that is not in the map
Lookup(ext) == IF Found(ext) THEN table.ext_set[ext] ELSE ZeroLanguage

---------------------------------------------------------------------------
(* File.scan: the classification of one line *)

\* const ( NORMAL = iota; BLOCK; END )
NORMAL == 0

BLOCK == 1

END == 2

\* File{path: path, info: info}: every other field has its zero value
NewFile(path, size) ==
    [path |-> path, size |-> size, lang |-> ZeroLanguage, scanned |-> FALSE,
     lines |-> 0, comments |-> 0, blanks |-> 0, code |-> 0]

\* the result of one loop iteration: the state and the record it leaves
Step(st, f) == [state |-> st, file |-> f]

\* file.lines++
IncLines(f) == [f EXCEPT !.lines = @ + 1]

\* file.blanks++
IncBlanks(f) == [f EXCEPT !.blanks = @ + 1]

\* file.comments++
IncComments(f) == [f EXCEPT !.comments = @ + 1]

\* file.code++
IncCode(f) == [f EXCEPT !.code = @ + 1]

\* strings.HasPrefix(line, file.lang.comment) && file.lang.comment != ""
IsLineComment(lang, line) ==
    HasPrefix(line, lang.comment) /\ lang.comment # <<>>

\* the test of the end marker without && file.lang.endmark != ""
IsEndMark_NoEmptyCheck(lang, line) == HasPrefix(line, lang.endmark)

\* strings.HasPrefix(line, file.lang.endmark) && file.lang.endmark != ""
IsEndMark(lang, line) ==
    HasPrefix(line, lang.endmark) /\ lang.endmark # <<>>

\* file.lang.openblock != "" && file.lang.closeblock != ""
HasBlockMarkers(lang) == lang.openblock # <<>> /\ lang.closeblock # <<>>

\* spos := strings.LastIndex(line, file.lang.openblock)
Spos(lang, line) == LastIndex(line, lang.openblock)

\* epos := strings.LastIndex(line, file.lang.closeblock)
Epos(lang, line) == LastIndex(line, lang.closeblock)

\* if spos > epos && spos > 0: the threshold off by one
CodeOpensBlock_Col0(spos, epos) == spos > epos /\ spos > 0

\* if spos > epos && spos > 1
CodeOpensBlock(spos, epos) == spos > epos /\ spos > 1

\* else if spos > epos
CommentOpensBlock(spos, epos) == spos > epos

\* else if spos < epos: the test for an open marker left out
BlockPair_NoOpenCheck(spos, epos) == spos < epos

\* else if spos < epos && spos > -1
BlockPair(spos, epos) == spos < epos /\ spos > -1

\* case BLOCK: if epos != -1: an open marker after the close ignored
BlockCloses_AnyClose(spos, epos) == epos # -1

\* case BLOCK: if spos < epos && epos != -1
BlockCloses(spos, epos) == spos < epos /\ epos # -1

\* case NORMAL with the block markers tried before the line comment marker
ScanNormal_BlockFirst(f, line) ==
    LET spos == Spos(f.lang, line)
        epos == Epos(f.lang, line)
    IN  IF HasBlockMarkers(f.lang) /\ CodeOpensBlock(spos, epos)
             THEN Step(BLOCK, IncCode(f))
        ELSE IF HasBlockMarkers(f.lang) /\ CommentOpensBlock(spos, epos)
             THEN Step(BLOCK, IncComments(f))
        ELSE IF HasBlockMarkers(f.lang) /\ BlockPair(spos, epos)
             THEN Step(NORMAL, IncComments(f))
        ELSE IF IsLineComment(f.lang, line) THEN Step(NORMAL, IncComments(f))
        ELSE IF IsEndMark(f.lang, line) THEN Step(END, IncComments(f))
        ELSE Step(NORMAL, IncCode(f))

\* case NORMAL
ScanNormal(f, line) ==
    LET spos == Spos(f.lang, line)
        epos == Epos(f.lang, line)
    IN  IF IsLineComment(f.lang, line) THEN Step(NORMAL, IncComments(f))
        ELSE IF IsEndMark(f.lang, line) THEN Step(END, IncComments(f))
        ELSE IF HasBlockMarkers(f.lang) /\ CodeOpensBlock(spos, epos)
             THEN Step(BLOCK, IncCode(f))
        ELSE IF HasBlockMarkers(f.lang) /\ CommentOpensBlock(spos, epos)
             THEN Step(BLOCK, IncComments(f))
        ELSE IF HasBlockMarkers(f.lang) /\ BlockPair(spos, epos)
             THEN Step(NORMAL, IncComments(f))
        ELSE Step(NORMAL, IncCode(f))

\* case BLOCK with file.comments++ in the else branch only
ScanBlock_CloseUncounted(f, line) ==
    LET spos == Spos(f.lang, line)
        epos == Epos(f.lang, line)
    IN  IF BlockCloses(spos, epos) THEN Step(NORMAL, f)
        ELSE Step(BLOCK, IncComments(f))

\* case BLOCK
ScanBlock(f, line) ==
    LET spos == Spos(f.lang, line)
        epos == Epos(f.lang, line)
    IN  IF BlockCloses(spos, epos) THEN Step(NORMAL, IncComments(f))
        ELSE Step(BLOCK, IncComments(f))

\* case END falling through to the classification of case NORMAL
ScanEnd_Reclassify(f, line) == ScanNormal(f, line)

\* case END
ScanEnd(f, line) == Step(END, IncComments(f))

\* switch state
ScanSwitch(st, f, line) ==
    IF st = NORMAL THEN ScanNormal(f, line)
    ELSE IF st = BLOCK THEN ScanBlock(f, line)
    ELSE IF st = END THEN ScanEnd(f, line)
    ELSE Step(st, f)

\* the loop with the blank test made in state NORMAL only
ScanLine_BlankInComment(st, f, lo) ==
    LET line == TrimSpace(lo)
    IN  IF line = <<>> /\ st = NORMAL THEN Step(st, IncBlanks(IncLines(f)))
        ELSE ScanSwitch(st, IncLines(f), line)

\* one iteration of the loop over scanner.Scan(), for the line scanner.Text()
ScanLine(st, f, lo) ==
    LET line == TrimSpace(lo)
    IN  IF line = <<>> THEN Step(st, IncBlanks(IncLines(f)))
        ELSE ScanSwitch(st, IncLines(f), line)

\* if file.lang.name == "" && file.info.Size() == 0
ShouldSkip_And(f) == f.lang.name = <<>> /\ f.size = 0

\* if file.lang.name == "" || file.info.Size() == 0
ShouldSkip(f) == f.lang.name = <<>> \/ f.size = 0

\* file.lang = extensions[strings.ToLower(filepath.Ext(file.path))]
Resolve(f) == [f EXCEPT !.lang = Lookup(ToLower(Ext(f.path)))]

---------------------------------------------------------------------------
(* The inputs: a directory tree, the files of the tests, the lines read *)

\* the entries filepath.Walk(".") hands to walkFunc, in lexical order
Tree == <<
    [path |-> <<".">>, isDir |-> TRUE],
    [path |-> <<".","g","i","t">>, isDir |-> TRUE],
    [path |-> <<".","g","i","t","/","h",".","j","s">>, isDir |-> FALSE],
    [path |-> <<".","x",".","j","s">>, isDir |-> FALSE],
    [path |-> <<"A",".","J","S">>, isDir |-> FALSE],
    [path |-> <<"_","_","p","y","c","a","c","h","e","_","_">>, isDir |-> TRUE],
    [path |-> <<"_","_","p","y","c","a","c","h","e","_","_","/","m",".","p","y">>, isDir |-> FALSE],
    [path |-> <<"a",".","p","l">>, isDir |-> FALSE],
    [path |-> <<"b",".","p","l">>, isDir |-> FALSE],
    [path |-> <<"c",".","x","y","z">>, isDir |-> FALSE]
>>

\* the file names check_scan is called with
TestPaths == {<<"t",".","p","l">>, <<"t",".","c","s","s">>, <<"t",".","p","y">>, <<"t",".","t","x","t">>, <<"t",".","x","y","z">>, <<"T",".","J","S">>}

\* info.Size(): the code compares it with zero only
FileSizes == {0, 1}

\* the values of scanner.Text() in a scan started from check_scan
Lines == {
    <<>>, <<" ">>, <<"\t"," ">>,
    <<"x">>, <<" ","x"," ">>, <<"/">>, <<"*">>, <<"x","/","/">>, <<"x","_","_","E","N","D","_","_">>,
    <<"/","/","x">>, <<"/","/","/","*">>, <<"/","/","_","_","E","N","D","_","_">>, <<"#","x">>, <<"#","/","*">>,
    <<"/","*">>, <<"x","/","*">>, <<"x","x","/","*">>, <<" "," ","x","x","/","*">>, <<"*","/","*">>, <<"*","/","/","*">>, <<"/","*","x","*","/","/","*">>,
    <<"/","*","x","*","/">>, <<"x","/","*","x","*","/","x">>, <<"/","*","/">>, <<"/","*","*","/">>,
    <<"*","/">>, <<"*","/","x">>, <<"x","*","/">>,
    <<"_","_","E","N","D","_","_">>, <<"_","_","E","N","D","_","_","/","*">>, <<"_","_","E","N","D","_","_","/","/">>
}

\* the values of scanner.Text() in a scan started from walkFunc
WalkLines == {<<>>, <<"x">>, <<"/","/","x">>, <<"/","*">>, <<"x","x","/","*">>, <<"*","/">>, <<"_","_","E","N","D","_","_">>}

---------------------------------------------------------------------------
(* filepath.Walk and walkFunc *)

\* path lies beneath directory dir
Under(dir, path) == HasPrefix(path, dir \o <<"/">>)

\* filepath.Walk: the next entry after i that lies beneath no skipped directory
NextIdx(i, skip) ==
    LET later == {j \in (i + 1)..Len(Tree) :
                     \A d \in skip : ~Under(d, Tree[j].path)}
    IN  IF later = {} THEN Len(Tree) + 1 ELSE Min(later)

\* walkFunc on a directory: whether it returns filepath.SkipDir
SkipsDir(path) ==
    /\ path # <<".">>
    /\ \/ HasPrefix(Base(path), <<".">>)
       \/ Base(path) = <<"_","_","p","y","c","a","c","h","e","_","_">>

\* the bound on the lines of the file being scanned
LineBound == IF entry = "test" THEN MaxLines ELSE MaxWalkLines

\* the lines the file being scanned may hold
InputLines == IF entry = "test" THEN Lines ELSE WalkLines

\* the loop of main without the test of files[i].scanned
RECURSIVE TotalsOf_All(_)
TotalsOf_All(fs) ==
    IF fs = <<>>
    THEN [file_count |-> 0, blank_count |-> 0, comment_count |-> 0,
          code_count |-> 0, line_count |-> 0]
    ELSE LET t == TotalsOf_All(SubSeq(fs, 1, Len(fs) - 1))
             f == fs[Len(fs)]
         IN  [file_count |-> t.file_count + 1,
              blank_count |-> t.blank_count + f.blanks,
              comment_count |-> t.comment_count + f.comments,
              code_count |-> t.code_count + f.code,
              line_count |-> t.line_count + f.lines]

\* for i := 0; i < len(files); i++ { if files[i].scanned { ... } }
RECURSIVE TotalsOf(_)
TotalsOf(fs) ==
    IF fs = <<>>
    THEN [file_count |-> 0, blank_count |-> 0, comment_count |-> 0,
          code_count |-> 0, line_count |-> 0]
    ELSE LET t == TotalsOf(SubSeq(fs, 1, Len(fs) - 1))
             f == fs[Len(fs)]
         IN  IF f.scanned
             THEN [file_count |-> t.file_count + 1,
                   blank_count |-> t.blank_count + f.blanks,
                   comment_count |-> t.comment_count + f.comments,
                   code_count |-> t.code_count + f.code,
                   line_count |-> t.line_count + f.lines]
             ELSE t

---------------------------------------------------------------------------
(* reportDetail *)

\* the printable characters but the backslash and the backquote, in the
\* order of their bytes
Ascii == <<
    " ","!","\"","#","$","%","&","'","(",")","*","+",",","-",".","/",
    "0","1","2","3","4","5","6","7","8","9",":",";","<","=",">","?",
    "@","A","B","C","D","E","F","G","H","I","J","K","L","M","N","O",
    "P","Q","R","S","T","U","V","W","X","Y","Z","[","]","^","_",
    "a","b","c","d","e","f","g","h","i","j","k","l","m","n","o",
    "p","q","r","s","t","u","v","w","x","y","z","{","|","}","~"
>>

\* the place of every character in that order
Places == [c \in Range(Ascii) |-> CHOOSE i \in 1..Len(Ascii) : Ascii[i] = c]

\* the place of a character in that order
Code(c) == Places[c]

\* a < b on Go strings: bytewise lexicographic order
StrLess(a, b) ==
    LET n == IF Len(a) < Len(b) THEN Len(a) ELSE Len(b)
        diff == {i \in 1..n : a[i] # b[i]}
    IN  IF diff = {} THEN Len(a) < Len(b)
        ELSE Code(a[Min(diff)]) < Code(b[Min(diff)])

\* Less of Files ("file"), FileByLang ("lang") and FileByPath ("path")
LessBy(by, a, b) ==
    IF by = "file" THEN a.lines > b.lines
    ELSE IF by = "lang" THEN StrLess(a.lang.name, b.lang.name)
    ELSE StrLess(a.path, b.path)

\* the files of Tree walkFunc can append to files: the longest list there is
Candidates ==
    {i \in 1..Len(Tree) : ~Tree[i].isDir /\ Ext(Tree[i].path) \in DOMAIN extensions}

\* the orders of n elements, for every length of files
Orders ==
    [n \in 0..Cardinality(Candidates) |->
        {p \in [1..n -> 1..n] : \A i, j \in 1..n : p[i] = p[j] => i = j}]

\* the orders of n elements
Perms(n) == Orders[n]

\* the list fs in the order p
Permute(fs, p) == [i \in 1..Len(fs) |-> fs[p[i]]]

\* the sort left out: the list as it is
SortedPerms_Unsorted(fs, by) == {fs}

\* sort.Sort is not stable: any order of fs with no element less than the
\* one before it
SortedPerms(fs, by) ==
    {s \in {Permute(fs, p) : p \in Perms(Len(fs))} :
        \A i \in 1..(Len(s) - 1) : ~LessBy(by, s[i + 1], s[i])}

\* fmt.Printf("%-29s%10d%10d%10d%10d%10d\n", ...): one row of the report
Row(key, count, blanks, comments, code, lines) ==
    [key |-> key, count |-> count, blanks |-> blanks, comments |-> comments,
     code |-> code, lines |-> lines]

\* name = name[0:27] + ".."
TruncName(name) ==
    IF Len(name) > 29 THEN SubSeq(name, 1, 27) \o <<".", ".">> ELSE name

\* path = path[0:10] + "..." + path[len(path)-16:]
TruncPath(path) ==
    IF Len(path) > 29
    THEN SubSeq(path, 1, 10) \o <<".", ".", ".">>
             \o SubSeq(path, Len(path) - 15, Len(path))
    ELSE path

\* the key a row groups by: files[i].lang.name or files[i].path
KeyOf(by, f) == IF by = "lang" THEN f.lang.name ELSE f.path

\* the key as printed by the Printf inside the loop
PrintedKey(by, key) == IF by = "path" THEN TruncPath(key) ELSE key

\* lang/path := "": count, blanks, comments, code, lines := 0, 0, 0, 0, 0
NoGroup == Row(<<>>, 0, 0, 0, 0, 0)

\* the loops of the ARG_BYPATH branch and of the else branch, from files[k]
\* on, with acc the group in hand and rows the rows printed so far; the
\* Printf after the loop prints the group in hand
RECURSIVE GroupLoop(_, _, _, _, _)
GroupLoop(fs, by, k, acc, rows) ==
    IF k > Len(fs) THEN Append(rows, acc)
    ELSE IF ~fs[k].scanned THEN GroupLoop(fs, by, k + 1, acc, rows)
    ELSE LET f == fs[k]
             key == IF acc.key = <<>> THEN KeyOf(by, f) ELSE acc.key
         IN  IF key # KeyOf(by, f)
             THEN GroupLoop(fs, by, k + 1,
                      Row(KeyOf(by, f), 1, f.blanks, f.comments, f.code, f.lines),
                      Append(rows, [acc EXCEPT !.key = PrintedKey(by, key)]))
             ELSE GroupLoop(fs, by, k + 1,
                      Row(key, acc.count + 1, f.blanks + acc.blanks,
                          f.comments + acc.comments, f.code + acc.code,
                          f.lines + acc.lines),
                      rows)

\* the loop of the ARG_BYFILE branch: one row for every scanned file
RECURSIVE FileRows(_, _)
FileRows(fs, k) ==
    IF k > Len(fs) THEN <<>>
    ELSE IF ~fs[k].scanned THEN FileRows(fs, k + 1)
    ELSE <<Row(TruncName(Base(fs[k].path)), 1, fs[k].blanks, fs[k].comments,
               fs[k].code, fs[k].lines)>> \o FileRows(fs, k + 1)

\* the rows reportDetail prints for the sorted list fs
ReportRows(fs, by) ==
    IF by = "file" THEN FileRows(fs, 1)
    ELSE GroupLoop(fs, by, 1, NoGroup, <<>>)

\* the flags: ARG_BYFILE ("file"), else ARG_BYPATH ("path"), else neither
ReportFlags == {"file", "path", "lang"}

\* nothing printed yet
NoOutput == [by |-> "", rows |-> <<>>]

\* no file has its lines fixed in advance
NoDisk == <<>>

Init ==
    /\ entry \in {"main", "test"}
    /\ pc = IF entry = "main" THEN "walk" ELSE "test"
    /\ widx = 1
    /\ skipped = {}
    /\ files = <<>>
    /\ file = NewFile(<<>>, 0)
    /\ state = NORMAL
    /\ line_orig = <<>>
    /\ failed = {}
    /\ totals = TotalsOf(<<>>)
    /\ out = NoOutput
    /\ table = BuiltTable(languages, extensions)
    /\ disk = NoDisk

\* scan returns: walkFunc appends the record, check_scan compares it
Return(f) ==
    /\ file' = f
    /\ line_orig' = <<>>
    /\ IF entry = "main"
       THEN /\ files' = Append(files, f)
            /\ widx' = NextIdx(widx, skipped)
            /\ pc' = "walk"
       ELSE /\ pc' = "checked"
            /\ UNCHANGED <<files, widx>>

\* scan with state a variable that outlives the call
BeginScan_KeepState(f0, openOk) ==
    LET f == Resolve(f0)
    IN  /\ state' = state
        /\ IF ShouldSkip(f)
           THEN /\ Return([f EXCEPT !.scanned = FALSE])
                /\ UNCHANGED failed
           ELSE IF ~openOk
           THEN /\ pc' = "panic"
                /\ file' = f
                /\ failed' = failed \cup {f.path}
                /\ UNCHANGED <<files, widx, line_orig>>
           ELSE /\ pc' = "scan"
                /\ file' = f
                /\ line_orig' = <<>>
                /\ UNCHANGED <<files, widx, failed>>

\* scan on a record that keeps the blanks, comments and code of the record
\* scanned before
BeginScan_KeepCounts(f0, openOk) ==
    LET f == Resolve([f0 EXCEPT !.blanks = file.blanks, !.comments = file.comments,
                                 !.code = file.code])
    IN  /\ state' = NORMAL
        /\ IF ShouldSkip(f)
           THEN /\ Return([f EXCEPT !.scanned = FALSE])
                /\ UNCHANGED failed
           ELSE IF ~openOk
           THEN /\ pc' = "panic"
                /\ file' = f
                /\ failed' = failed \cup {f.path}
                /\ UNCHANGED <<files, widx, line_orig>>
           ELSE /\ pc' = "scan"
                /\ file' = f
                /\ line_orig' = <<>>
                /\ UNCHANGED <<files, widx, failed>>

\* scan up to its loop: resolve the language, skip or open the file
BeginScan(f0, openOk) ==
    LET f == Resolve(f0)
    IN  /\ state' = NORMAL
        /\ IF ShouldSkip(f)
           THEN /\ Return([f EXCEPT !.scanned = FALSE])
                /\ UNCHANGED failed
           ELSE IF ~openOk
           THEN /\ pc' = "panic"
                /\ file' = f
                /\ failed' = failed \cup {f.path}
                /\ UNCHANGED <<files, widx, line_orig>>
           ELSE /\ pc' = "scan"
                /\ file' = f
                /\ line_orig' = <<>>
                /\ UNCHANGED <<files, widx, failed>>

\* walkFunc, info.IsDir()
WalkDir ==
    /\ pc = "walk"
    /\ widx <= Len(Tree)
    /\ Tree[widx].isDir
    /\ skipped' = IF SkipsDir(Tree[widx].path)
                  THEN skipped \cup {Tree[widx].path} ELSE skipped
    /\ widx' = NextIdx(widx, skipped')
    /\ UNCHANGED <<entry, disk, out, table, pc, files, file, state, line_orig, failed, totals>>

\* walkFunc on a file whose extension is no key of extensions
WalkOther ==
    /\ pc = "walk"
    /\ widx <= Len(Tree)
    /\ ~Tree[widx].isDir
    /\ ~Found(Ext(Tree[widx].path))
    /\ widx' = NextIdx(widx, skipped)
    /\ UNCHANGED <<entry, disk, out, table, pc, skipped, files, file, state, line_orig, failed, totals>>

\* walkFunc on a file whose extension is a key: file.scan(), then append
WalkFile ==
    /\ pc = "walk"
    /\ widx <= Len(Tree)
    /\ ~Tree[widx].isDir
    /\ Found(Ext(Tree[widx].path))
    /\ \E size \in FileSizes, openOk \in BOOLEAN :
          BeginScan(NewFile(Tree[widx].path, size), openOk)
    /\ UNCHANGED <<entry, disk, out, table, skipped, totals>>

\* check_scan: file := File{path: filename, info: stats}; file.scan()
TestScan ==
    /\ pc = "test"
    /\ \E path \in TestPaths, size \in FileSizes, openOk \in BOOLEAN :
          BeginScan(NewFile(path, size), openOk)
    /\ UNCHANGED <<entry, disk, out, table, skipped, totals>>

\* scanner.Scan() returns a line: one iteration of the loop
ScanStep ==
    /\ pc = "scan"
    /\ file.size > 0
    /\ file.lines < LineBound
    /\ \E l \in InputLines :
          LET r == ScanLine(state, file, l)
          IN  /\ state' = r.state
              /\ file' = r.file
              /\ line_orig' = l
    /\ UNCHANGED <<entry, disk, out, table, pc, widx, skipped, files, failed, totals>>

\* scanner.Scan() returns false at the end of the file: file.scanned = true
ScanEOF ==
    /\ pc = "scan"
    /\ file.size = 0 \/ file.lines >= 1
    /\ Return([file EXCEPT !.scanned = TRUE])
    /\ UNCHANGED <<entry, disk, out, table, skipped, state, failed, totals>>

\* scanner.Scan() returns the buffered rest of the file as a last line after
\* a read error: scanner.Err() is not nil and the loop body panics
ScanReadPanic ==
    /\ pc = "scan"
    /\ failed' = failed \cup {file.path}
    /\ pc' = "panic"
    /\ UNCHANGED <<entry, disk, out, table, widx, skipped, files, file, state, line_orig, totals>>

\* scanner.Scan() returns false on a read error with nothing buffered, or on
\* a line too long for its buffer: the loop ends as at the end of the file
ScanReadError ==
    /\ pc = "scan"
    /\ failed' = failed \cup {file.path}
    /\ Return([file EXCEPT !.scanned = TRUE])
    /\ UNCHANGED <<entry, disk, out, table, skipped, state, totals>>

\* main, after filepath.Walk returns: total the scanned files
Totals ==
    /\ pc = "walk"
    /\ widx > Len(Tree)
    /\ totals' = TotalsOf(files)
    /\ pc' = "report"
    /\ UNCHANGED <<entry, disk, out, table, widx, skipped, files, file, state, line_orig, failed>>

\* main: reportDetail(files), which sorts files in place and prints the rows
Report ==
    /\ pc = "report"
    /\ \E by \in ReportFlags :
          \E s \in SortedPerms(files, by) :
              /\ files' = s
              /\ out' = [by |-> by, rows |-> ReportRows(s, by)]
    /\ pc' = "done"
    /\ UNCHANGED <<entry, disk, table, widx, skipped, file, state, line_orig,
                   failed, totals>>

---------------------------------------------------------------------------
(* The function that builds var extensions, over rule lists other than the *)
(* declared one as well                                                    *)

\* rules to build a table from: Perl, CSS and Python as languages declares
\* them, and one more value of type Language that names .pl again, so that
\* the loop writes one key twice (no two rules of languages share a key)
Rules == {
    Language(<<"P","e","r","l">>, <<<<".","p","l">>>>, <<"/","*">>, <<"*","/">>, <<"/","/">>, <<"_","_","E","N","D","_","_">>),
    Language(<<"P","r","o","l","o","g">>, <<<<".","p","l">>>>, <<"/","*">>, <<"*","/">>, <<"%">>, <<>>),
    Language(<<"C","S","S">>, <<<<".","c","s","s">>>>, <<"/","*">>, <<"*","/">>, <<>>, <<>>),
    Language(<<"P","y","t","h","o","n">>, <<<<".","p","y">>, <<".","p","y","w">>>>, <<>>, <<>>, <<"#">>, <<>>)
}

\* the lists the loop is run on: languages as declared, and the lists of up
\* to MaxRules of these rules
RuleLists ==
    {languages} \cup UNION {[1..n -> Rules] : n \in 0..MaxRules}

InitTable ==
    /\ entry = "table"
    /\ pc = "init"
    /\ widx = 1
    /\ skipped = {}
    /\ files = <<>>
    /\ file = NewFile(<<>>, 0)
    /\ state = NORMAL
    /\ line_orig = <<>>
    /\ failed = {}
    /\ totals = TotalsOf(<<>>)
    /\ out = NoOutput
    /\ \E langs \in RuleLists : table = NewTable(langs)
    /\ disk = NoDisk

\* for _, lang := range languages: one language, all its extensions
BuildStep ==
    /\ pc = "init"
    /\ table.next <= Len(table.langs)
    /\ table' = [table EXCEPT
                    !.ext_set = PutAll(@, table.langs[table.next], 1),
                    !.next = @ + 1]
    /\ UNCHANGED <<entry, disk, pc, widx, skipped, files, file, state, line_orig,
                   failed, totals, out>>

\* return ext_set: extensions is set and the program starts
BuildDone ==
    /\ pc = "init"
    /\ table.next > Len(table.langs)
    /\ pc' = IF entry = "main" THEN "walk" ELSE "test"
    /\ UNCHANGED <<entry, disk, widx, skipped, files, file, state, line_orig,
                   failed, totals, out, table>>

NextTable ==
    \/ BuildStep
    \/ BuildDone
    \/ TestScan
    \/ ScanStep
    \/ ScanEOF
    \/ ScanReadPanic
    \/ ScanReadError

SpecTable == InitTable /\ [][NextTable]_vars

---------------------------------------------------------------------------

Next ==
    \/ WalkDir
    \/ WalkOther
    \/ WalkFile
    \/ TestScan
    \/ ScanStep
    \/ ScanEOF
    \/ ScanReadPanic
    \/ ScanReadError
    \/ Totals
    \/ Report

Spec == Init /\ [][Next]_vars

---------------------------------------------------------------------------
(* Scans of files whose lines are fixed on disk *)

\* test_files/php.php, the file TestScanPHP scans
PhpPath == <<"t","e","s","t","_","f","i","l","e","s","/","p","h","p",".","p","h","p">>

\* the lines bufio.Scanner returns for test_files/php.php
PhpLines == <<
    <<"<","?","p","h","p">>,
    <<"c","l","a","s","s"," ","M","h","i","s","t","o","r","y"," ","e","x","t","e","n","d","s"," ","C","I","_","M","o","d","e","l"," ","{">>,
    <<>>,
    <<" "," "," "," ","/","*">>,
    <<" "," "," "," ","*"," "," ","A","d","d"," ","a"," ","h","i","s","t","o","r","y"," ","r","e","c","o","r","d"," ","f","o","r"," ","s","e","n","d","i","n","g"," ","t","h","e"," ","e","m","a","i","l">>,
    <<" "," "," "," ","*">>,
    <<" "," "," "," ","*","/">>,
    <<" "," "," "," ","f","u","n","c","t","i","o","n"," ","c","r","e","a","t","e","(","$","r","u","l","e","i","d",","," ","$","j","s","o","n","d","a","t","a",")">>,
    <<" "," "," "," ","{">>,
    <<" "," "," "," "," "," "," "," ","$","s","t","o","r","e","d","p","r","o","c"," ","="," ","\"">>,
    <<" "," "," "," "," "," "," "," "," "," "," "," ","/","*"," ","N","o","t","i","f","i","e","r"," ","H","i","s","t","o","r","y"," ","c","r","e","a","t","e"," ","S","Q","L"," ","*","/">>,
    <<" "," "," "," "," "," "," "," "," "," "," "," ","I","N","S","E","R","T"," ","I","N","T","O"," ","A","L","P","H","A",".","R","5","0","A","L","L",".","C","I","_","H","I","S","T","O","R","Y">>,
    <<" "," "," "," "," "," "," "," "," "," "," "," ","(","R","U","L","E","I","D",","," ","J","S","O","N","D","A","T","A",")">>,
    <<" "," "," "," "," "," "," "," "," "," "," "," ","V","A","L","U","E","S","(","?",","," ","?",")","\"",";">>,
    <<>>,
    <<" "," "," "," "," "," "," "," ","$","s","t","m","t"," ","="," ","$","t","h","i","s","-",">","d","b","-",">","q","u","e","r","y","(">>,
    <<" "," "," "," "," "," "," "," "," "," "," "," ","$","s","t","o","r","e","d","p","r","o","c",",">>,
    <<" "," "," "," "," "," "," "," "," "," "," "," ","a","r","r","a","y","(">>,
    <<" "," "," "," "," "," "," "," "," "," "," "," "," "," "," "," ","$","r","u","l","e","i","d",",">>,
    <<" "," "," "," "," "," "," "," "," "," "," "," "," "," "," "," ","s","t","r","_","r","e","p","l","a","c","e","(","\"","'","\"",","," ","\"","'","'","\"",","," ","$","j","s","o","n","d","a","t","a",")">>,
    <<" "," "," "," "," "," "," "," "," "," "," "," ",")">>,
    <<" "," "," "," "," "," "," "," ",")",";">>,
    <<" "," "," "," "," "," "," "," ","r","e","t","u","r","n"," ","$","s","t","m","t",";">>,
    <<>>,
    <<"\t","}">>,
    <<"}">>,
    <<"#"," ","B","l","a","n","k"," ","="," ","3",","," ","C","o","m","m","e","n","t"," ","="," ","5",","," "," ","C","o","d","e"," ","="," ","1","9",","," ","T","o","t","a","l"," ","="," ","2","7">>,
    <<>>
>>

\* the lines of .x.js: a line comment, then a block left open
JsLines == <<<<"/","/","c">>, <<"x">>, <<"/","*">>>>

\* the contents a.pl and b.pl may have
Contents == {
    <<>>,
    <<<<"x">>>>,
    <<<<"x">>, <<"/","*">>>>,
    <<<<"_","_","E","N","D","_","_">>, <<"x">>>>,
    <<<<"/","/","c">>, <<>>, <<"x","x","/","*">>, <<"c">>>>,
    <<<<"/","*">>, <<"c">>, <<"*","/">>, <<"x">>>>
}

\* the files of Tree that have a registered extension and lie beneath no
\* skipped directory, and the file of the test
Disks ==
    {[p \in {<<".","x",".","j","s">>, <<"a",".","p","l">>, <<"b",".","p","l">>, PhpPath} |->
         IF p = PhpPath THEN PhpLines
         ELSE IF p = <<".","x",".","j","s">> THEN JsLines
         ELSE IF p = <<"a",".","p","l">> THEN a ELSE b] : a, b \in Contents}

\* info.Size(): the bytes of the lines and of their line ends
RECURSIVE DiskSize(_)
DiskSize(ls) == IF ls = <<>> THEN 0 ELSE Len(Head(ls)) + 1 + DiskSize(Tail(ls))

\* the files check_scan is run on
DiskTestPaths == {PhpPath, <<"a",".","p","l">>}

InitDisk ==
    /\ entry \in {"main", "test"}
    /\ pc = IF entry = "main" THEN "walk" ELSE "test"
    /\ widx = 1
    /\ skipped = {}
    /\ files = <<>>
    /\ file = NewFile(<<>>, 0)
    /\ state = NORMAL
    /\ line_orig = <<>>
    /\ failed = {}
    /\ totals = TotalsOf(<<>>)
    /\ out = NoOutput
    /\ table = BuiltTable(languages, extensions)
    /\ disk \in Disks

\* walkFunc on a file whose extension is a key: file.scan(), then append
DiskWalkFile ==
    /\ pc = "walk"
    /\ widx <= Len(Tree)
    /\ ~Tree[widx].isDir
    /\ Found(Ext(Tree[widx].path))
    /\ \E openOk \in BOOLEAN :
          BeginScan(NewFile(Tree[widx].path, DiskSize(disk[Tree[widx].path])), openOk)
    /\ UNCHANGED <<entry, disk, out, table, skipped, totals>>

\* check_scan: stats, _ := os.Stat(filename); file.scan()
DiskTestScan ==
    /\ pc = "test"
    /\ \E path \in DiskTestPaths, openOk \in BOOLEAN :
          BeginScan(NewFile(path, DiskSize(disk[path])), openOk)
    /\ UNCHANGED <<entry, disk, out, table, skipped, totals>>

\* scanner.Scan() returns the next line of the file
DiskScanStep ==
    /\ pc = "scan"
    /\ file.lines < Len(disk[file.path])
    /\ LET l == disk[file.path][file.lines + 1]
           r == ScanLine(state, file, l)
       IN  /\ state' = r.state
           /\ file' = r.file
           /\ line_orig' = l
    /\ UNCHANGED <<entry, disk, out, table, pc, widx, skipped, files, failed, totals>>

\* scanner.Scan() returns false after the last line: file.scanned = true
DiskScanEOF ==
    /\ pc = "scan"
    /\ file.lines = Len(disk[file.path])
    /\ Return([file EXCEPT !.scanned = TRUE])
    /\ UNCHANGED <<entry, disk, out, table, skipped, state, failed, totals>>

NextDisk ==
    \/ WalkDir
    \/ WalkOther
    \/ DiskWalkFile
    \/ DiskTestScan
    \/ DiskScanStep
    \/ DiskScanEOF
    \/ ScanReadPanic
    \/ ScanReadError
    \/ Totals
    \/ Report

SpecDisk == InitDisk /\ [][NextDisk]_vars

---------------------------------------------------------------------------
(* Properties of the scanner *)

\* a step of the scan loop: one line has been read and classified
LineRead == pc = "scan" /\ pc' = "scan"

\* the line just read, as the loop classifies it
trimmed_line == TrimSpace(line_orig)

\* every record the program holds: those appended and the one in hand
Records == Range(files) \cup {file}

\* exactly the counter named by kind grows by one, the other two stay
CountsAs(kind) ==
    /\ file'.blanks = file.blanks + (IF kind = "blank" THEN 1 ELSE 0)
    /\ file'.comments = file.comments + (IF kind = "comment" THEN 1 ELSE 0)
    /\ file'.code = file.code + (IF kind = "code" THEN 1 ELSE 0)

C1_Sum == \A f \in Records : f.lines = f.code + f.comments + f.blanks

C1_Step ==
    LineRead =>
        /\ file'.lines = file.lines + 1
        /\ \E kind \in {"blank", "comment", "code"} : CountsAs(kind)

\* C1: after every line read by scan and at completion, lines equals
\* code + comments + blanks; each line read adds one to lines and one to
\* exactly one of blanks, comments and code.
C1_LinesAreClassified == [](C1_Sum) /\ [][C1_Step]_vars

\* a file of three lines has one blank, one comment and one code line
C1_Witness ==
    /\ pc = "checked"
    /\ file.scanned
    /\ file.lines = 3 /\ file.blanks = 1 /\ file.comments = 1 /\ file.code = 1

\* C2: in each of the three states a line that is empty once trimmed adds
\* one to blanks only and leaves the state as it was.
C2_BlankPrecedence ==
    [][(LineRead /\ trimmed_line' = <<>>) =>
          /\ CountsAs("blank")
          /\ state' = state
          /\ state \in {NORMAL, BLOCK, END}]_vars

\* a line of white space read inside a block comment is counted blank
C2_Witness ==
    /\ pc = "scan"
    /\ state = BLOCK
    /\ line_orig = <<"\t", " ">>
    /\ file.lines = 2 /\ file.blanks = 1 /\ file.comments = 1

\* C3: a line read in NORMAL that starts with the non-empty end marker
\* counts as comment and enters END; from END the scan of the file never
\* leaves END, every later non-blank line counts as comment and code never
\* grows.
C3_EndIsAbsorbing ==
    [][/\ (LineRead /\ state = END) =>
              /\ state' = END
              /\ file'.code = file.code
              /\ (trimmed_line' # <<>> => CountsAs("comment"))
       /\ (pc = "scan" /\ state = END) => state' = END
       /\ (/\ LineRead
           /\ state = NORMAL
           /\ file.lang.endmark # <<>>
           /\ HasPrefix(trimmed_line', file.lang.endmark)) =>
              /\ state' = END
              /\ CountsAs("comment")]_vars

\* an end marker line and five non-blank lines: six comments, no code
C3_Witness ==
    /\ pc = "checked"
    /\ state = END
    /\ file.scanned
    /\ file.lines = 6 /\ file.comments = 6 /\ file.code = 0 /\ file.blanks = 0

\* a non-blank line read in NORMAL under a rule with both block markers
\* that neither the line comment check nor the end marker check takes
ReachesBlockCheck ==
    /\ LineRead
    /\ state = NORMAL
    /\ trimmed_line' # <<>>
    /\ ~(file.lang.comment # <<>> /\ HasPrefix(trimmed_line', file.lang.comment))
    /\ ~(file.lang.endmark # <<>> /\ HasPrefix(trimmed_line', file.lang.endmark))
    /\ file.lang.openblock # <<>>
    /\ file.lang.closeblock # <<>>

\* C4: such a line whose last open marker lies after its last close marker
\* enters BLOCK; it counts as code when spos > 1 and as comment when spos
\* is 0 or 1.
C4_OpenAfterClose ==
    [][ReachesBlockCheck =>
          LET spos == LastIndex(trimmed_line', file.lang.openblock)
              epos == LastIndex(trimmed_line', file.lang.closeblock)
          IN  spos > epos =>
                 /\ state' = BLOCK
                 /\ (spos > 1 => CountsAs("code"))
                 /\ (spos \in {0, 1} => CountsAs("comment"))]_vars

\* an open marker at index 1 with no close marker: comment, BLOCK
C4_Witness ==
    /\ pc = "scan"
    /\ state = BLOCK
    /\ line_orig = <<"x", "/", "*">>
    /\ file.lines = 1 /\ file.comments = 1 /\ file.code = 0

\* C5: such a line whose last open marker exists and lies before its last
\* close marker counts as comment and stays NORMAL; a line with no open
\* marker counts as code and stays NORMAL.
C5_PairOrNoOpen ==
    [][ReachesBlockCheck =>
          LET spos == LastIndex(trimmed_line', file.lang.openblock)
              epos == LastIndex(trimmed_line', file.lang.closeblock)
          IN  /\ (spos > -1 /\ spos < epos) =>
                     (CountsAs("comment") /\ state' = NORMAL)
              /\ spos = -1 => (CountsAs("code") /\ state' = NORMAL)]_vars

\* code before and after a complete pair: the line is a comment line
C5_Witness ==
    /\ pc = "scan"
    /\ state = NORMAL
    /\ line_orig = <<"x", "/", "*", "x", "*", "/", "x">>
    /\ file.lines = 1 /\ file.comments = 1 /\ file.code = 0

\* C6: every non-blank line read in BLOCK counts as comment; the state
\* after it is NORMAL exactly when a close marker occurs and the last
\* open marker lies before the last close marker, and BLOCK otherwise.
C6_InBlock ==
    [][(LineRead /\ state = BLOCK /\ trimmed_line' # <<>>) =>
          LET spos == LastIndex(trimmed_line', file.lang.openblock)
              epos == LastIndex(trimmed_line', file.lang.closeblock)
          IN  /\ CountsAs("comment")
              /\ state' = (IF epos # -1 /\ spos < epos THEN NORMAL ELSE BLOCK)]_vars

\* the line closing the block has code after the close marker
C6_Witness ==
    /\ pc = "scan"
    /\ state = NORMAL
    /\ line_orig = <<"*", "/", "x">>
    /\ file.lines = 2 /\ file.comments = 2 /\ file.code = 0

\* C7: in NORMAL the line comment marker is tried first, then the end
\* marker, then the block markers; an empty marker never matches.
C7_Priority ==
    [][(LineRead /\ state = NORMAL /\ trimmed_line' # <<>>) =>
          LET lang == file.lang
              lcom == lang.comment # <<>> /\ HasPrefix(trimmed_line', lang.comment)
              ecom == lang.endmark # <<>> /\ HasPrefix(trimmed_line', lang.endmark)
          IN  /\ lcom => (CountsAs("comment") /\ state' = NORMAL)
              /\ (~lcom /\ ecom) => (CountsAs("comment") /\ state' = END)
              /\ (~lcom /\ ~ecom) => state' # END
              /\ (~lcom /\ ~ecom /\ (lang.openblock = <<>> \/ lang.closeblock = <<>>))
                    => (CountsAs("code") /\ state' = NORMAL)]_vars

\* a line comment that holds a block open marker stays a line comment
C7_Witness ==
    /\ pc = "scan"
    /\ state = NORMAL
    /\ line_orig = <<"/", "/", "/", "*">>
    /\ file.lang.openblock = <<"/", "*">>
    /\ file.lines = 1 /\ file.comments = 1

---------------------------------------------------------------------------
(* Properties of the walk *)

\* the entries before i that walkFunc has been called with
Visited(i) ==
    {j \in 1..(i - 1) : \A d \in skipped : ~Under(d, Tree[j].path)}

\* C8: every file walkFunc has seen whose extension is registered up to
\* letter case has a record in files, resolved to the rule of the
\* lowercase extension.
C8_CaseInsensitiveDiscovery ==
    pc \in {"walk", "report"} =>
        \A j \in Visited(widx) :
            (~Tree[j].isDir /\ Found(ToLower(Ext(Tree[j].path)))) =>
                \E k \in 1..Len(files) :
                    /\ files[k].path = Tree[j].path
                    /\ files[k].lang = Lookup(ToLower(Ext(Tree[j].path)))

\* the counts of a record are all zero
ZeroCounts(f) == f.lines = 0 /\ f.code = 0 /\ f.comments = 0 /\ f.blanks = 0

\* the records whose scan has returned
Returned == Range(files) \cup (IF pc = "checked" THEN {file} ELSE {})

\* C9: a file whose extension is not registered or whose size is zero ends
\* with scanned = false and all counts zero; it is never opened and no line
\* of it is read.
C9_SkippedFiles ==
    /\ pc \in {"scan", "panic"} => (file.lang.name # <<>> /\ file.size # 0)
    /\ \A f \in Returned :
          (~Found(ToLower(Ext(f.path))) \/ f.size = 0) =>
              (~f.scanned /\ ZeroCounts(f))

\* a file of one byte with an unregistered extension, after scan returned
C9_Witness ==
    /\ pc = "checked"
    /\ Ext(file.path) = <<".", "x", "y", "z">>
    /\ file.size = 1
    /\ ~file.scanned

\* C10: an open or read failure on a file leaves its record unscanned and
\* never ends the run.
C10_IOErrorIsolated ==
    /\ pc # "panic"
    /\ \A f \in Returned : f.path \in failed => ~f.scanned

---------------------------------------------------------------------------
(* Properties of the extension table *)

\* both block markers are empty or both are set
WellFormed(lang) == (lang.openblock = <<>>) <=> (lang.closeblock = <<>>)

\* the extensions the languages of a list name
Claimed(langs) == UNION {Range(langs[i].extension) : i \in 1..Len(langs)}

C16_LastWriteWins ==
    /\ [](pc # "init" =>
            /\ DOMAIN table.ext_set = Claimed(table.langs)
            /\ \A ext \in DOMAIN table.ext_set :
                  table.ext_set[ext] =
                      table.langs[Max({i \in 1..Len(table.langs) :
                                         ext \in Range(table.langs[i].extension)})]
            /\ table.langs = languages => table.ext_set = extensions)
    /\ [][pc # "init" => table' = table]_vars

\* two languages name .pl: the key holds the later one
C16_Witness ==
    /\ pc = "scan"
    /\ Len(table.langs) = 2
    /\ table.langs[1].name = <<"P", "e", "r", "l">>
    /\ table.langs[2].name = <<"P","r","o","l","o","g">>
    /\ file.lang = table.langs[2]
    /\ Ext(file.path) = <<".", "p", "l">>

---------------------------------------------------------------------------
(* Properties of the report *)

\* the sum of f[i] over the indices of a list
RECURSIVE SumTo(_, _)
SumTo(f, n) == IF n = 0 THEN 0 ELSE f[n] + SumTo(f, n - 1)

\* the sum of a column over the rows printed
RowSum(col) == SumTo([i \in 1..Len(out.rows) |-> out.rows[i][col]], Len(out.rows))

\* the sum of a field over the scanned records of files
ScannedSum(field) ==
    SumTo([i \in 1..Len(files) |->
              IF files[i].scanned THEN files[i][field] ELSE 0], Len(files))

\* C12: the rows reportDetail prints by language and by path are the same
\* for every order of the list of records, and every row that counts a
\* file has the key of a scanned record.
C12_OrderIndependent ==
    (pc = "done" /\ out.by \in {"lang", "path"}) =>
        /\ \A p \in Perms(Len(files)) :
              \A s \in SortedPerms(Permute(files, p), out.by) :
                  ReportRows(s, out.by) = out.rows
        /\ \A i \in 1..Len(out.rows) :
              out.rows[i].count > 0 =>
                  \E k \in 1..Len(files) :
                      /\ files[k].scanned
                      /\ PrintedKey(out.by, KeyOf(out.by, files[k])) = out.rows[i].key

\* three scanned files of two languages, one unscanned: two rows, the
\* second one counting two files
C12_Witness ==
    /\ pc = "done"
    /\ out.by = "lang"
    /\ Len(out.rows) = 2
    /\ out.rows[1].count = 1
    /\ out.rows[2].count = 2
    /\ out.rows[2].lines = 2

\* C18: the totals of main count the scanned records only; each total is
\* the sum of its column over the rows printed by language; and the total
\* of lines is the sum of the totals of blanks, comments and code.
C18_TotalsMatchRows ==
    /\ pc \in {"report", "done"} =>
          /\ totals.file_count = Cardinality({i \in 1..Len(files) : files[i].scanned})
          /\ totals.blank_count = ScannedSum("blanks")
          /\ totals.comment_count = ScannedSum("comments")
          /\ totals.code_count = ScannedSum("code")
          /\ totals.line_count = ScannedSum("lines")
          /\ totals.line_count =
                totals.blank_count + totals.comment_count + totals.code_count
    /\ (pc = "done" /\ out.by = "lang") =>
          /\ totals.file_count = RowSum("count")
          /\ totals.blank_count = RowSum("blanks")
          /\ totals.comment_count = RowSum("comments")
          /\ totals.code_count = RowSum("code")
          /\ totals.line_count = RowSum("lines")

\* two scanned files and an empty one: the totals count two files
C18_Witness ==
    /\ pc = "done"
    /\ out.by = "lang"
    /\ Len(files) = 3
    /\ totals.file_count = 2
    /\ totals.line_count = 2
    /\ Len(out.rows) = 2

---------------------------------------------------------------------------
(* Rules with empty markers *)

\* a rule with no line comment, no block markers and no end marker
NoMarkers(lang) ==
    /\ lang.comment = <<>>
    /\ lang.openblock = <<>>
    /\ lang.closeblock = <<>>
    /\ lang.endmark = <<>>

\* C19: under a rule whose markers are all empty the state is NORMAL after
\* every line, comments stays 0 and every line that is not blank is code;
\* the state is BLOCK only under a rule with both block markers non-empty
\* and END only under a rule with a non-empty end marker.
C19_EmptyMarkers ==
    /\ NoMarkers(file.lang) =>
          /\ state = NORMAL
          /\ file.comments = 0
          /\ file.code = file.lines - file.blanks
    /\ state = BLOCK =>
          (file.lang.openblock # <<>> /\ file.lang.closeblock # <<>>)
    /\ state = END => file.lang.endmark # <<>>

\* a file of a rule of no markers, three lines read, one blank, the last
\* one a line that opens a block under other rules
C19_Witness ==
    /\ pc = "scan"
    /\ file.lang.name # <<>>
    /\ NoMarkers(file.lang)
    /\ file.lines = 3
    /\ file.blanks = 1
    /\ file.code = 2
    /\ line_orig = <<"_","_","E","N","D","_","_","/","*">>

---------------------------------------------------------------------------
(* Hidden entries of the walk *)

\* a directory other than the root whose name begins with "." or is
\* __pycache__
HiddenDir(e) ==
    /\ e.isDir
    /\ e.path # <<".">>
    /\ (Base(e.path)[1] = "." \/ Base(e.path) = <<"_","_","p","y","c","a","c","h","e","_","_">>)

\* a path beneath a hidden directory, or a file whose name begins with "."
Hidden(path) ==
    \/ \E i \in 1..Len(Tree) : HiddenDir(Tree[i]) /\ Under(Tree[i].path, path)
    \/ Base(path)[1] = "."

\* C17: no file beneath a directory whose name begins with "." or is
\* __pycache__, and no file whose name begins with ".", is scanned or
\* appended to files; the root "." is not skipped.
C17_HiddenNeverScanned ==
    /\ <<".">> \notin skipped
    /\ pc \in {"scan", "panic"} => ~Hidden(file.path)
    /\ \A i \in 1..Len(files) : ~Hidden(files[i].path)

---------------------------------------------------------------------------
(* Scans of fixed files *)

\* the four counts of a record
Counts(f) == <<f.lines, f.code, f.comments, f.blanks>>

\* scan of the lines ls from the k-th on, in state st with record f
RECURSIVE ScanFrom(_, _, _, _)
ScanFrom(st, f, ls, k) ==
    IF k > Len(ls) THEN f
    ELSE LET r == ScanLine(st, f, ls[k])
         IN  ScanFrom(r.state, r.file, ls, k + 1)

\* C13: the scan of test_files/php.php by check_scan returns blanks = 3,
\* comments = 5, code = 19 and lines = 27.
C13_PhpFixture ==
    (pc = "checked" /\ file.path = PhpPath /\ file.path \notin failed) =>
        /\ file.scanned
        /\ file.blanks = 3
        /\ file.comments = 5
        /\ file.code = 19
        /\ file.lines = 27

\* the records of files that were scanned to the end of their file
ScannedWhole == {i \in 1..Len(files) : files[i].scanned /\ files[i].path \notin failed}

\* C11: two scans of the same sequence of lines under the same rule return
\* the same lines, code, comments and blanks.
C11_SameLinesSameCounts ==
    \A i, j \in ScannedWhole :
        (disk[files[i].path] = disk[files[j].path] /\ files[i].lang = files[j].lang)
            => Counts(files[i]) = Counts(files[j])

\* a.pl and b.pl hold the same four lines, the last one inside a block left
\* open, and both have been scanned
C11_Witness ==
    /\ Len(files) = 3
    /\ {2, 3} \subseteq ScannedWhole
    /\ files[2].path # files[3].path
    /\ disk[files[2].path] = disk[files[3].path]
    /\ files[2].lang = files[3].lang
    /\ Counts(files[3]) = <<4, 1, 2, 1>>

\* a scan begins: the walk or the test calls scan and it opens the file
ScanBegins == pc \in {"walk", "test"} /\ pc' = "scan"

\* C14: every scan starts in NORMAL whatever the state the scan before it
\* ended in, and the counts a scan returns are those of its own lines
\* scanned from NORMAL on a new record, whichever files were scanned before.
C14_ScanStartsNormal ==
    /\ [][ScanBegins => state' = NORMAL]_vars
    /\ [](\A f \in Returned :
             (f.scanned /\ f.path \notin failed) =>
                 Counts(f) = Counts(ScanFrom(NORMAL, Resolve(NewFile(f.path, f.size)),
                                             disk[f.path], 1)))

\* the scan of a.pl ended inside a block comment and the first line of
\* b.pl has been counted as code
C14_Witness ==
    /\ pc = "scan"
    /\ Len(files) = 2
    /\ files[2].path = <<"a",".","p","l">>
    /\ files[2].scanned
    /\ disk[<<"a",".","p","l">>] = <<<<"x">>, <<"/","*">>>>
    /\ file.path = <<"b",".","p","l">>
    /\ file.lines = 1
    /\ file.code = 1
    /\ state = NORMAL

====
